---- MODULE Spec2Model ----
(***************************************************************************)
(* Model of split.py: process_songbook loads one songbook document and     *)
(* writes it back as per-song, per-album and per-artist files, the profile *)
(* and metadata extracts, and a master catalog.                            *)
(*                                                                         *)
(* A Python string is a tuple of one-character strings ("a b" is           *)
(* <<"a", " ", "b">>), a JSON object is a function whose DOMAIN is its set *)
(* of keys, a JSON array is a sequence.                                    *)
(***************************************************************************)
EXTENDS Integers, Sequences, FiniteSets, TLC

VARIABLES
    input,       \* the content of the input file
    pc,          \* the statement process_songbook is at
    data,        \* the parsed document (line 189)
    songs_only,  \* the working song list (line 202)
    idx,         \* position of the running for loop
    groups,      \* the albums / artists dict of the running stage, in insertion order
    dirs,        \* the directories under the output root
    files,       \* the files under the output root: path -> content
    out,         \* what was printed about each load / write, in order
    nfail        \* number of failed writes so far

vars == <<input, pc, data, songs_only, idx, groups, dirs, files, out, nfail>>

\* ---------------------------------------------------------------- bounds
MaxSongs == 2
MaxFailures == 2

\* ---------------------------------------------------------------- strings
Profile == <<"P", "r", "o", "f", "i", "l", "e">>
VariousArtists == <<"V", "a", "r", "i", "o", "u", "s", " ", "A", "r", "t", "i", "s", "t", "s">>
UnknownArtist == <<"U", "n", "k", "n", "o", "w", "n", " ", "A", "r", "t", "i", "s", "t">>
Uncategorized == <<"U", "n", "c", "a", "t", "e", "g", "o", "r", "i", "z", "e", "d">>
DotJson == <<".", "j", "s", "o", "n">>
MetadataName == <<"m", "e", "t", "a", "d", "a", "t", "a">> \o DotJson
ArtistProfileName == <<"a", "r", "t", "i", "s", "t", "_", "p", "r", "o", "f", "i", "l", "e">> \o DotJson
CatalogName == <<"c", "a", "t", "a", "l", "o", "g">> \o DotJson

\* The characters re.sub(r'[\\/*?:"<>|]', "", name) removes.
InvalidChars == {"\\", "/", "*", "?", ":", "\"", "<", ">", "|"}

\* Unicode code points of the characters the titles of the model use:
\* Python orders str values by code point.
CodePoint(c) ==
    CASE c = " " -> 32
      [] c = ":" -> 58
      [] c = "P" -> 80
      [] c = "_" -> 95
      [] c = "a" -> 97
      [] c = "b" -> 98
      [] c = "e" -> 101
      [] c = "f" -> 102
      [] c = "i" -> 105
      [] c = "l" -> 108
      [] c = "o" -> 111
      [] c = "r" -> 114

RECURSIVE StrLess(_, _)
\* s < t on Python str
StrLess(s, t) ==
    IF Len(s) = 0 THEN Len(t) > 0
    ELSE IF Len(t) = 0 THEN FALSE
    ELSE IF Head(s) # Head(t) THEN CodePoint(Head(s)) < CodePoint(Head(t))
    ELSE StrLess(Tail(s), Tail(t))

StrLeq(s, t) == ~StrLess(t, s)

\* sanitize_filename
sanitize_filename(name) ==
    LET kept == SelectSeq(name, LAMBDA c : c \notin InvalidChars)
    IN  [i \in 1..Len(kept) |-> IF kept[i] = " " THEN "_" ELSE kept[i]]

\* ---------------------------------------------------------------- dict helpers
Has(obj, key) == key \in DOMAIN obj
\* obj.get(key, default)
Get(obj, key, default) == IF key \in DOMAIN obj THEN obj[key] ELSE default
\* bool(obj.get(key)) for a string-valued key
Truthy(obj, key) == key \in DOMAIN obj /\ Len(obj[key]) > 0

\* ---------------------------------------------------------------- sorting
RECURSIVE InsertKeyed(_, _)
\* insert x into the sorted sequence s after every element whose key is <= x.key
InsertKeyed(x, s) ==
    IF Len(s) = 0 THEN <<x>>
    ELSE IF StrLess(x.key, s[1].key) THEN <<x>> \o s
    ELSE <<s[1]>> \o InsertKeyed(x, Tail(s))

RECURSIVE SortKeyed(_)
\* stable ascending sort of a sequence of [key, val]
SortKeyed(s) ==
    IF Len(s) = 0 THEN <<>>
    ELSE InsertKeyed(s[Len(s)], SortKeyed(SubSeq(s, 1, Len(s) - 1)))

\* mutant: the songs are embedded in grouping order, the sort left out
sorted_by_title_unsorted(songs) == songs

\* sorted(songs, key=lambda x: x.get('title', ''))
sorted_by_title(songs) ==
    LET keyed == [i \in 1..Len(songs) |-> [key |-> Get(songs[i], "title", <<>>), val |-> songs[i]]]
        srt == SortKeyed(keyed)
    IN  [i \in 1..Len(srt) |-> srt[i].val]

\* sorted(titles) / titles.sort()
sorted_titles(titles) ==
    LET keyed == [i \in 1..Len(titles) |-> [key |-> titles[i], val |-> titles[i]]]
        srt == SortKeyed(keyed)
    IN  [i \in 1..Len(srt) |-> srt[i].val]

\* ---------------------------------------------------------------- output tree
Path(dir, name) == [dir |-> dir, name |-> name]
Json(value) == [kind |-> "json", value |-> value]
\* what open(filepath, 'w') leaves when json.dump raises part-way: a truncated text
Partial == [kind |-> "partial"]

\* with open(filepath, 'w') as f: json.dump(value, f): the file is created or replaced
WriteFile(fs, path, content) ==
    [p \in DOMAIN fs \cup {path} |-> IF p = path THEN content ELSE fs[p]]

\* the trees a write that raises can leave: open() raised (nothing changed), or
\* json.dump raised after open() truncated the file
FailedWrites(fs, path) == {fs, WriteFile(fs, path, Partial)}

Event(stage, item, result) == [stage |-> stage, item |-> item, result |-> result]

\* ---------------------------------------------------------------- grouping
RECURSIVE group_by(_, _)
\* lines 50-57 / 84-91: the dict key -> list of songs, as the sequence of its
\* items in insertion order
group_by(songs, field) ==
    IF Len(songs) = 0 THEN <<>>
    ELSE LET prev == group_by(SubSeq(songs, 1, Len(songs) - 1), field)
             song == songs[Len(songs)]
         IN  IF ~Truthy(song, field) THEN prev
             ELSE IF \E i \in 1..Len(prev) : prev[i].key = song[field]
                  THEN LET i == CHOOSE j \in 1..Len(prev) : prev[j].key = song[field]
                       IN  [prev EXCEPT ![i].songs = Append(@, song)]
                  ELSE Append(prev, [key |-> song[field], songs |-> <<song>>])

\* mutant: the artist is taken from the first song of the sorted list
album_data_sorted_artist(album_title, songs_in_album) ==
    LET sorted_songs == sorted_by_title(songs_in_album)
    IN  [album_title |-> album_title,
         artist |-> Get(sorted_songs[1], "artist", VariousArtists),
         song_count |-> Len(sorted_songs),
         songs |-> sorted_songs]

\* lines 65-71
album_data(album_title, songs_in_album) ==
    LET sorted_songs == sorted_by_title(songs_in_album)
    IN  [album_title |-> album_title,
         artist |-> Get(songs_in_album[1], "artist", VariousArtists),
         song_count |-> Len(sorted_songs),
         songs |-> sorted_songs]

\* lines 99-104
artist_data(artist_name, songs_by_artist) ==
    LET sorted_songs == sorted_by_title(songs_by_artist)
    IN  [artist_name |-> artist_name,
         song_count |-> Len(sorted_songs),
         songs |-> sorted_songs]

\* line 34
song_has_file(song) == Has(song, "title") /\ song["title"] # Profile

\* mutant: the Profile entry stays in the working list
filter_profile_none(songs_data) == songs_data

\* line 202
filter_profile(songs_data) ==
    SelectSeq(songs_data, LAMBDA song : Get(song, "title", <<>>) # Profile)

\* line 124: the first item titled "Profile", or <<>> for None
find_profile(songs_data) ==
    LET hits == SelectSeq(songs_data, LAMBDA item : Get(item, "title", <<>>) = Profile)
    IN  IF Len(hits) = 0 THEN <<>> ELSE hits[1]

\* ---------------------------------------------------------------- catalog
\* mutant: the titles are listed in input order
catalog_songs_unsorted(songs_data) ==
    LET titled == SelectSeq(songs_data,
                            LAMBDA song : Has(song, "title") /\ song["title"] # Profile)
    IN  [i \in 1..Len(titled) |-> titled[i]["title"]]

\* line 144
catalog_songs(songs_data) ==
    LET titled == SelectSeq(songs_data,
                            LAMBDA song : Has(song, "title") /\ song["title"] # Profile)
    IN  sorted_titles([i \in 1..Len(titled) |-> titled[i]["title"]])

\* line 148: the songs the grouping loop does not skip
catalog_grouped(song) == Truthy(song, "title") /\ song["title"] # Profile

\* lines 156-158
add_to_artist(artists, artist, title) ==
    [a \in DOMAIN artists \cup {artist} |->
        IF a = artist THEN Append(IF a \in DOMAIN artists THEN artists[a] ELSE <<>>, title)
        ELSE artists[a]]

\* lines 161-166
add_to_album(albums, album, artist, title) ==
    [a \in DOMAIN albums \cup {album} |->
        IF a = album
        THEN LET entry == IF a \in DOMAIN albums THEN albums[a]
                          ELSE [artist |-> artist, songs |-> <<>>]
             IN  [entry EXCEPT !.songs = Append(@, title)]
        ELSE albums[a]]

RECURSIVE catalog_loop(_)
\* lines 147-166
catalog_loop(songs_data) ==
    IF Len(songs_data) = 0 THEN [artists |-> <<>>, albums |-> <<>>]
    ELSE LET prev == catalog_loop(SubSeq(songs_data, 1, Len(songs_data) - 1))
             song == songs_data[Len(songs_data)]
             artist == Get(song, "artist", UnknownArtist)
             album == Get(song, "album", Uncategorized)
         IN  IF ~catalog_grouped(song) THEN prev
             ELSE [artists |-> add_to_artist(prev.artists, artist, song["title"]),
                   albums |-> add_to_album(prev.albums, album, artist, song["title"])]

\* lines 137-173
build_catalog(songs_data) ==
    LET grouped == catalog_loop(songs_data)
    IN  [artists |-> [a \in DOMAIN grouped.artists |-> sorted_titles(grouped.artists[a])],
         albums |-> [a \in DOMAIN grouped.albums |->
                        [grouped.albums[a] EXCEPT !.songs = sorted_titles(@)]],
         songs |-> catalog_songs(songs_data)]

\* ---------------------------------------------------------------- inputs
\* The song records the input documents are built from: titles that are equal,
\* that sanitize to the same file name ("a:" and "a"; "a b" and "a_b"), that
\* are empty, absent or "Profile"; albums and artists that are absent, empty,
\* shared, or the catalog's default key.
SongRecords ==
    { [title |-> <<"a">>, album |-> <<"Z">>, artist |-> <<"X">>],
      [title |-> <<"a">>, artist |-> <<"Y">>],
      [title |-> <<"a", ":">>, album |-> <<"Z", ":">>, artist |-> <<"X">>],
      [title |-> <<"a", " ", "b">>, album |-> <<"Z">>],
      [title |-> <<"a", "_", "b">>, album |-> <<"Z">>, artist |-> <<"Y">>],
      [title |-> <<"b">>, album |-> Uncategorized, artist |-> <<"X">>],
      [title |-> <<"b">>, album |-> <<>>, artist |-> <<>>],
      [title |-> <<>>, album |-> <<"Z">>, artist |-> <<"X">>],
      [album |-> <<"Z">>, artist |-> <<"Y">>],
      [title |-> Profile, album |-> <<"Z">>, artist |-> <<"X">>],
      [title |-> Profile, artist |-> <<"Y">>] }

SongLists == UNION { [1..n -> SongRecords] : n \in 0..MaxSongs }

MetadataValue == [v |-> <<"1">>]

\* The documents json.load can return: an object with an optional "songs"
\* array of song objects and an optional "metadata" object.
Documents ==
    { [songs |-> l] : l \in SongLists }
    \cup { [songs |-> l, metadata |-> MetadataValue] : l \in SongLists }
    \cup { [metadata |-> MetadataValue] }

Final == {"returned", "raised", "done"}

Init ==
    /\ input \in Documents
    /\ pc = "load"
    /\ data = <<>>
    /\ songs_only = <<>>
    /\ idx = 0
    /\ groups = <<>>
    /\ dirs = {}
    /\ files = <<>>
    /\ out = <<>>
    /\ nfail = 0

\* ---------------------------------------------------------------- process_songbook
\* lines 186-189, 200-202: the document loads
LoadOk ==
    /\ pc = "load"
    /\ data' = input
    /\ songs_only' = filter_profile(Get(input, "songs", <<>>))
    /\ out' = Append(out, Event("load", 0, "ok"))
    /\ pc' = "create_directories"
    /\ UNCHANGED <<input, idx, groups, dirs, files, nfail>>

\* mutant: the handler goes on with an empty document instead of returning
LoadFailed_Continue(diagnostic) ==
    /\ pc = "load"
    /\ out' = Append(out, Event("load", 0, diagnostic))
    /\ data' = <<>>
    /\ songs_only' = <<>>
    /\ pc' = "create_directories"
    /\ UNCHANGED <<input, idx, groups, dirs, files, nfail>>

\* the except clauses of lines 190-198: a diagnostic, then return
LoadFailed(diagnostic) ==
    /\ pc = "load"
    /\ out' = Append(out, Event("load", 0, diagnostic))
    /\ pc' = "returned"
    /\ UNCHANGED <<input, data, songs_only, idx, groups, dirs, files, nfail>>

\* lines 190-192
LoadFileNotFound == LoadFailed("not found")
\* lines 193-195
LoadJSONDecodeError == LoadFailed("not a valid JSON file")
\* lines 196-198
LoadOtherError == LoadFailed("unexpected error")

\* lines 16-24, and line 30-32 entering the song loop
create_directories ==
    /\ pc = "create_directories"
    /\ dirs' = {"songs", "albums", "artists"}
    /\ pc' = "songs"
    /\ idx' = 1
    /\ UNCHANGED <<input, data, songs_only, groups, files, out, nfail>>

\* os.makedirs raises (lines 21-23): nothing catches it
create_directories_raises ==
    /\ pc = "create_directories"
    /\ nfail < MaxFailures
    /\ nfail' = nfail + 1
    /\ dirs' \in {{}, {"songs"}, {"songs", "albums"}}
    /\ out' = Append(out, Event("create_directories", 0, "raised"))
    /\ pc' = "raised"
    /\ UNCHANGED <<input, data, songs_only, idx, groups, files>>

\* ---------------------------------------------------------------- create_song_files
SongPath(song) == Path("songs", sanitize_filename(song["title"]) \o DotJson)

\* mutant: an existing song file is not replaced
SongWrite_KeepFirst ==
    /\ pc = "songs" /\ idx <= Len(songs_only)
    /\ song_has_file(songs_only[idx])
    /\ files' = IF SongPath(songs_only[idx]) \in DOMAIN files THEN files
                ELSE WriteFile(files, SongPath(songs_only[idx]), Json(songs_only[idx]))
    /\ out' = Append(out, Event("song", idx, "ok"))
    /\ idx' = idx + 1
    /\ UNCHANGED <<input, pc, data, songs_only, groups, dirs, nfail>>

\* lines 32-40: the song is written
SongWrite ==
    /\ pc = "songs" /\ idx <= Len(songs_only)
    /\ song_has_file(songs_only[idx])
    /\ files' = WriteFile(files, SongPath(songs_only[idx]), Json(songs_only[idx]))
    /\ out' = Append(out, Event("song", idx, "ok"))
    /\ idx' = idx + 1
    /\ UNCHANGED <<input, pc, data, songs_only, groups, dirs, nfail>>

\* mutant: no try/except around the song write
SongWriteError_Raises ==
    /\ pc = "songs" /\ idx <= Len(songs_only)
    /\ song_has_file(songs_only[idx])
    /\ nfail < MaxFailures
    /\ nfail' = nfail + 1
    /\ files' \in FailedWrites(files, SongPath(songs_only[idx]))
    /\ out' = Append(out, Event("song", idx, "error"))
    /\ pc' = "raised"
    /\ UNCHANGED <<input, data, songs_only, idx, groups, dirs>>

\* lines 41-42: the write raised, the loop goes on
SongWriteError ==
    /\ pc = "songs" /\ idx <= Len(songs_only)
    /\ song_has_file(songs_only[idx])
    /\ nfail < MaxFailures
    /\ nfail' = nfail + 1
    /\ files' \in FailedWrites(files, SongPath(songs_only[idx]))
    /\ out' = Append(out, Event("song", idx, "error"))
    /\ idx' = idx + 1
    /\ UNCHANGED <<input, pc, data, songs_only, groups, dirs>>

\* line 34 is false: no file for this item
SongSkip ==
    /\ pc = "songs" /\ idx <= Len(songs_only)
    /\ ~song_has_file(songs_only[idx])
    /\ idx' = idx + 1
    /\ UNCHANGED <<input, pc, data, songs_only, groups, dirs, files, out, nfail>>

\* ---------------------------------------------------------------- create_album_files
\* lines 50-59: the song loop is over, the songs are grouped by album
GroupAlbums ==
    /\ pc = "songs" /\ idx > Len(songs_only)
    /\ groups' = group_by(songs_only, "album")
    /\ idx' = 1
    /\ pc' = "albums"
    /\ UNCHANGED <<input, data, songs_only, dirs, files, out, nfail>>

AlbumPath(album_title) == Path("albums", sanitize_filename(album_title) \o DotJson)

\* lines 60-73
AlbumWrite ==
    /\ pc = "albums" /\ idx <= Len(groups)
    /\ files' = WriteFile(files, AlbumPath(groups[idx].key),
                          Json(album_data(groups[idx].key, groups[idx].songs)))
    /\ out' = Append(out, Event("album", idx, "ok"))
    /\ idx' = idx + 1
    /\ UNCHANGED <<input, pc, data, songs_only, groups, dirs, nfail>>

\* lines 74-75
AlbumWriteError ==
    /\ pc = "albums" /\ idx <= Len(groups)
    /\ nfail < MaxFailures
    /\ nfail' = nfail + 1
    /\ files' \in FailedWrites(files, AlbumPath(groups[idx].key))
    /\ out' = Append(out, Event("album", idx, "error"))
    /\ idx' = idx + 1
    /\ UNCHANGED <<input, pc, data, songs_only, groups, dirs>>

\* ---------------------------------------------------------------- create_artist_files
\* lines 84-93
GroupArtists ==
    /\ pc = "albums" /\ idx > Len(groups)
    /\ groups' = group_by(songs_only, "artist")
    /\ idx' = 1
    /\ pc' = "artists"
    /\ UNCHANGED <<input, data, songs_only, dirs, files, out, nfail>>

ArtistPath(artist_name) == Path("artists", sanitize_filename(artist_name) \o DotJson)

\* lines 94-106
ArtistWrite ==
    /\ pc = "artists" /\ idx <= Len(groups)
    /\ files' = WriteFile(files, ArtistPath(groups[idx].key),
                          Json(artist_data(groups[idx].key, groups[idx].songs)))
    /\ out' = Append(out, Event("artist", idx, "ok"))
    /\ idx' = idx + 1
    /\ UNCHANGED <<input, pc, data, songs_only, groups, dirs, nfail>>

\* lines 107-108
ArtistWriteError ==
    /\ pc = "artists" /\ idx <= Len(groups)
    /\ nfail < MaxFailures
    /\ nfail' = nfail + 1
    /\ files' \in FailedWrites(files, ArtistPath(groups[idx].key))
    /\ out' = Append(out, Event("artist", idx, "error"))
    /\ idx' = idx + 1
    /\ UNCHANGED <<input, pc, data, songs_only, groups, dirs>>

\* ---------------------------------------------------------------- create_profile_and_metadata_files
\* lines 117-121
MetadataWrite ==
    /\ pc = "artists" /\ idx > Len(groups)
    /\ Has(data, "metadata")
    /\ files' = WriteFile(files, Path(".", MetadataName), Json(data["metadata"]))
    /\ out' = Append(out, Event("metadata", 0, "ok"))
    /\ pc' = "profile"
    /\ UNCHANGED <<input, data, songs_only, idx, groups, dirs, nfail>>

\* lines 119-120 raise: no handler in create_profile_and_metadata_files nor in
\* process_songbook, the exception leaves process_songbook
MetadataWriteRaises ==
    /\ pc = "artists" /\ idx > Len(groups)
    /\ Has(data, "metadata")
    /\ nfail < MaxFailures
    /\ nfail' = nfail + 1
    /\ files' \in FailedWrites(files, Path(".", MetadataName))
    /\ out' = Append(out, Event("metadata", 0, "raised"))
    /\ pc' = "raised"
    /\ UNCHANGED <<input, data, songs_only, idx, groups, dirs>>

\* line 117 is false
MetadataSkip ==
    /\ pc = "artists" /\ idx > Len(groups)
    /\ ~Has(data, "metadata")
    /\ pc' = "profile"
    /\ UNCHANGED <<input, data, songs_only, idx, groups, dirs, files, out, nfail>>

\* lines 124-129
ProfileWrite ==
    /\ pc = "profile"
    /\ find_profile(Get(data, "songs", <<>>)) # <<>>
    /\ files' = WriteFile(files, Path(".", ArtistProfileName),
                          Json(find_profile(Get(data, "songs", <<>>))))
    /\ out' = Append(out, Event("profile", 0, "ok"))
    /\ pc' = "catalog"
    /\ UNCHANGED <<input, data, songs_only, idx, groups, dirs, nfail>>

\* lines 127-128 raise
ProfileWriteRaises ==
    /\ pc = "profile"
    /\ find_profile(Get(data, "songs", <<>>)) # <<>>
    /\ nfail < MaxFailures
    /\ nfail' = nfail + 1
    /\ files' \in FailedWrites(files, Path(".", ArtistProfileName))
    /\ out' = Append(out, Event("profile", 0, "raised"))
    /\ pc' = "raised"
    /\ UNCHANGED <<input, data, songs_only, idx, groups, dirs>>

\* line 125 is false
ProfileSkip ==
    /\ pc = "profile"
    /\ find_profile(Get(data, "songs", <<>>)) = <<>>
    /\ pc' = "catalog"
    /\ UNCHANGED <<input, data, songs_only, idx, groups, dirs, files, out, nfail>>

\* ---------------------------------------------------------------- create_catalog_file
\* lines 137-179, then lines 212-213
CatalogWrite ==
    /\ pc = "catalog"
    /\ files' = WriteFile(files, Path(".", CatalogName), Json(build_catalog(songs_only)))
    /\ out' = Append(out, Event("catalog", 0, "ok"))
    /\ pc' = "done"
    /\ UNCHANGED <<input, data, songs_only, idx, groups, dirs, nfail>>

\* lines 177-178 raise
CatalogWriteRaises ==
    /\ pc = "catalog"
    /\ nfail < MaxFailures
    /\ nfail' = nfail + 1
    /\ files' \in FailedWrites(files, Path(".", CatalogName))
    /\ out' = Append(out, Event("catalog", 0, "raised"))
    /\ pc' = "raised"
    /\ UNCHANGED <<input, data, songs_only, idx, groups, dirs>>

Next ==
    \/ LoadOk
    \/ LoadFileNotFound
    \/ LoadJSONDecodeError
    \/ LoadOtherError
    \/ create_directories
    \/ create_directories_raises
    \/ SongWrite
    \/ SongWriteError
    \/ SongSkip
    \/ GroupAlbums
    \/ AlbumWrite
    \/ AlbumWriteError
    \/ GroupArtists
    \/ ArtistWrite
    \/ ArtistWriteError
    \/ MetadataWrite
    \/ MetadataWriteRaises
    \/ MetadataSkip
    \/ ProfileWrite
    \/ ProfileWriteRaises
    \/ ProfileSkip
    \/ CatalogWrite
    \/ CatalogWriteRaises

Spec == Init /\ [][Next]_vars

\* ---------------------------------------------------------------- reading the result
\* the song records of the input document, Profile entries included
SongsIn == Get(input, "songs", <<>>)
\* a record with a title other than "Profile"
IsSong(rec) == "title" \in DOMAIN rec /\ rec["title"] # Profile
SongIndices == {i \in 1..Len(SongsIn) : IsSong(SongsIn[i])}
ProfileIndices ==
    {i \in 1..Len(SongsIn) : "title" \in DOMAIN SongsIn[i] /\ SongsIn[i]["title"] = Profile}
\* the file exists and holds a complete JSON text
Written(p) == p \in DOMAIN files /\ files[p].kind = "json"
WrittenIn(dir) == {p \in DOMAIN files : p.dir = dir /\ files[p].kind = "json"}
CatalogPath == Path(".", CatalogName)
Catalog == files[CatalogPath].value
HasEvent(stage) == \E i \in 1..Len(out) : out[i].stage = stage
ItemEvents(stage) == {i \in 1..Len(out) : out[i].stage = stage}
LoadFailure == Len(out) > 0 /\ out[1].stage = "load" /\ out[1].result # "ok"
\* number of positions of seq holding x
Count(seq, x) == Cardinality({i \in 1..Len(seq) : seq[i] = x})
Ascending(titles) ==
    \A i, j \in 1..Len(titles) : i < j => StrLeq(titles[i], titles[j])
TitlesOf(songs) ==
    LET titled == SelectSeq(songs, LAMBDA song : "title" \in DOMAIN song)
    IN  [i \in 1..Len(titled) |-> titled[i]["title"]]
SongFileName(rec) == sanitize_filename(rec["title"]) \o DotJson
\* the last song record of the input whose title sanitizes as that of SongsIn[i]
LastNamedLike(i) ==
    LET same == {j \in SongIndices : SongFileName(SongsIn[j]) = SongFileName(SongsIn[i])}
    IN  CHOOSE j \in same : \A k \in same : k <= j

\* ---------------------------------------------------------------- C1
\* C1 as stated: after a complete run with no write failure every record with
\* a title other than "Profile" has a file of its own in songs/, named
\* sanitize_filename(title) + ".json" and holding the record, also when
\* titles repeat or sanitize to the same name.
C1_EverySongOwnFile ==
    (pc = "done" /\ nfail = 0) =>
        \A i \in SongIndices :
            /\ Written(Path("songs", SongFileName(SongsIn[i])))
            /\ files[Path("songs", SongFileName(SongsIn[i]))] = Json(SongsIn[i])
            /\ \A j \in SongIndices \ {i} :
                    SongFileName(SongsIn[j]) # SongFileName(SongsIn[i])

\* C1 amended: after a complete run with no write failure, for every record
\* with a title other than "Profile" songs/ holds the file
\* sanitize_filename(title) + ".json", whose content is, field for field, the
\* LAST record of the input whose title sanitizes to that name; songs/ holds
\* no other file.
C1_LastRecordWins ==
    (pc = "done" /\ nfail = 0) =>
        /\ \A i \in SongIndices :
                /\ Written(Path("songs", SongFileName(SongsIn[i])))
                /\ files[Path("songs", SongFileName(SongsIn[i]))]
                       = Json(SongsIn[LastNamedLike(i)])
        /\ \A p \in DOMAIN files : p.dir = "songs" =>
                \E i \in SongIndices : p.name = SongFileName(SongsIn[i])

\* two different records with different titles share one file name
C1_Witness ==
    /\ pc = "done" /\ nfail = 0
    /\ \E i, j \in SongIndices :
            /\ i < j
            /\ SongsIn[i]["title"] # SongsIn[j]["title"]
            /\ SongFileName(SongsIn[i]) = SongFileName(SongsIn[j])
            /\ files[Path("songs", SongFileName(SongsIn[i]))] = Json(SongsIn[j])

\* ---------------------------------------------------------------- C2
\* C2: a record titled "Profile" is never the content of a songs/ file, never
\* a member of the songs list of an album or artist file, and "Profile" is in
\* none of the title lists of catalog.json; when the input holds exactly one
\* such record and the run completes, artist_profile.json holds that record.
C2_ProfileKeptApart ==
    /\ \A p \in WrittenIn("songs") : ~("title" \in DOMAIN files[p].value
                                        /\ files[p].value["title"] = Profile)
    /\ \A p \in WrittenIn("albums") \cup WrittenIn("artists") :
            \A i \in 1..Len(files[p].value.songs) :
                ~("title" \in DOMAIN files[p].value.songs[i]
                  /\ files[p].value.songs[i]["title"] = Profile)
    /\ Written(CatalogPath) =>
            /\ Count(Catalog.songs, Profile) = 0
            /\ \A a \in DOMAIN Catalog.artists : Count(Catalog.artists[a], Profile) = 0
            /\ \A a \in DOMAIN Catalog.albums : Count(Catalog.albums[a].songs, Profile) = 0
    /\ (pc = "done" /\ Cardinality(ProfileIndices) = 1) =>
            /\ Written(Path(".", ArtistProfileName))
            /\ \A i \in ProfileIndices :
                    files[Path(".", ArtistProfileName)] = Json(SongsIn[i])

\* a run completed on an input whose one Profile record names an album and an
\* artist that real songs of the input also name
C2_Witness ==
    /\ pc = "done"
    /\ Cardinality(ProfileIndices) = 1
    /\ \E i \in ProfileIndices, j \in SongIndices :
            /\ "album" \in DOMAIN SongsIn[i] /\ "album" \in DOMAIN SongsIn[j]
            /\ SongsIn[i]["album"] = SongsIn[j]["album"]
            /\ Written(AlbumPath(SongsIn[j]["album"]))
            /\ Written(Path(".", ArtistProfileName))

\* ---------------------------------------------------------------- C3
\* C3: after a load failure (not found, invalid JSON, other read error) the
\* run has returned and the output tree is as it was: no directory, no file.
C3_LoadFailureWritesNothing ==
    LoadFailure => pc = "returned" /\ dirs = {} /\ DOMAIN files = {}

C3_Witness ==
    /\ pc = "returned"
    /\ LoadFailure
    /\ out[1].result = "not a valid JSON file"

\* ---------------------------------------------------------------- C4
\* the keys of the album / artist files the run has to write
KeysOf(field) ==
    {SongsIn[i][field] : i \in {j \in 1..Len(SongsIn) :
        /\ ~("title" \in DOMAIN SongsIn[j] /\ SongsIn[j]["title"] = Profile)
        /\ field \in DOMAIN SongsIn[j]
        /\ SongsIn[j][field] # <<>>}}
ItemStages == {"song", "album", "artist"}
AfterSongs == {"albums", "artists", "profile", "catalog", "done"}
AfterAlbums == {"artists", "profile", "catalog", "done"}
AfterArtists == {"profile", "catalog", "done"}

\* C4: a failed write of a song, album or artist file never ends the run: the
\* run is still in its loop after it, an exception leaves process_songbook
\* only from another stage, and once a stage is over every item of it was
\* attempted (written or reported), whatever failed before it; a run that
\* reaches the end has written the catalog.
C4_ItemFailuresSkipped ==
    /\ \A i \in 1..Len(out) :
            (out[i].stage \in ItemStages /\ out[i].result = "error") =>
                (pc # "raised" \/ i < Len(out))
    /\ pc = "raised" => out[Len(out)].stage \notin ItemStages
    /\ pc \in AfterSongs =>
            Cardinality(ItemEvents("song")) = Cardinality(SongIndices)
    /\ pc \in AfterAlbums =>
            Cardinality(ItemEvents("album")) = Cardinality(KeysOf("album"))
    /\ pc \in AfterArtists =>
            Cardinality(ItemEvents("artist")) = Cardinality(KeysOf("artist"))
    /\ (pc = "done" /\ Len(out) > 0) => out[Len(out)] = Event("catalog", 0, "ok")

\* a run completed although a song write and an album write failed
C4_Witness ==
    /\ pc = "done"
    /\ \E i, j \in 1..Len(out) :
            /\ out[i].stage = "song" /\ out[i].result = "error"
            /\ out[j].stage = "album" /\ out[j].result = "error"
    /\ \E i \in 1..Len(out) : out[i].stage = "artist" /\ out[i].result = "ok"
    /\ Written(CatalogPath)

\* ---------------------------------------------------------------- C5
\* C5 as stated: the metadata and the Profile extraction are independent and
\* non-fatal: once the run has ended after reaching the metadata extraction,
\* the Profile extraction was attempted whenever the input has a Profile
\* record, and the catalog stage has run, whatever either extraction's outcome.
C5_ExtractionsNonFatal ==
    (pc \in {"raised", "done"} /\ (HasEvent("metadata") \/ HasEvent("profile"))) =>
        /\ ProfileIndices # {} => HasEvent("profile")
        /\ HasEvent("catalog")

\* ---------------------------------------------------------------- C6
\* C6: in every album file and artist file written, songs is in ascending
\* order of title (a record without a title counting as the empty title, the
\* key the sort uses) and song_count is the length of songs.
C6_GroupFilesSorted ==
    \A p \in WrittenIn("albums") \cup WrittenIn("artists") :
        LET v == files[p].value
        IN  /\ v.song_count = Len(v.songs)
            /\ \A i, j \in 1..Len(v.songs) : i < j =>
                    StrLeq(Get(v.songs[i], "title", <<>>), Get(v.songs[j], "title", <<>>))
            /\ Ascending(TitlesOf(v.songs))

\* an album file whose two songs came in descending order of title
C6_Witness ==
    /\ Len(SongsIn) = 2
    /\ \E p \in WrittenIn("albums") :
            /\ files[p].value.songs = <<SongsIn[2], SongsIn[1]>>
            /\ files[p].value.song_count = 2
            /\ SongsIn[1] # SongsIn[2]

\* ---------------------------------------------------------------- C7
\* C7: the songs list of catalog.json is ascending and holds each title as
\* many times as the input has records with that title, over the records
\* with a title other than "Profile".
C7_CatalogSongs ==
    Written(CatalogPath) =>
        /\ Ascending(Catalog.songs)
        /\ Len(Catalog.songs) = Cardinality(SongIndices)
        /\ \A i \in SongIndices :
                Count(Catalog.songs, SongsIn[i]["title"])
                    = Cardinality({j \in SongIndices : SongsIn[j]["title"] = SongsIn[i]["title"]})

\* a catalog listing a repeated title twice
C7_Witness ==
    /\ Written(CatalogPath)
    /\ Len(Catalog.songs) >= 2
    /\ \E i, j \in SongIndices : i # j /\ SongsIn[i]["title"] = SongsIn[j]["title"]
    /\ Catalog.songs[1] = Catalog.songs[2]

\* ---------------------------------------------------------------- C8
\* C8 as stated: a record without a title is in no output view: no songs/
\* file holds it, no album or artist file lists it among its songs, and the
\* catalog's lists hold exactly the titles of the titled, non-Profile records.
C8_UntitledExcluded ==
    /\ \A p \in WrittenIn("songs") : "title" \in DOMAIN files[p].value
    /\ \A p \in WrittenIn("albums") \cup WrittenIn("artists") :
            \A i \in 1..Len(files[p].value.songs) :
                "title" \in DOMAIN files[p].value.songs[i]
    /\ Written(CatalogPath) => Len(Catalog.songs) = Cardinality(SongIndices)

\* ---------------------------------------------------------------- C9
AlbumEntry(p) == Catalog.albums[files[p].value.album_title]
\* the first record of the input, Profile entries apart, in album k
FirstInAlbum(k) ==
    LET members == {i \in 1..Len(SongsIn) :
                        /\ ~("title" \in DOMAIN SongsIn[i] /\ SongsIn[i]["title"] = Profile)
                        /\ "album" \in DOMAIN SongsIn[i]
                        /\ SongsIn[i]["album"] = k}
    IN  SongsIn[CHOOSE i \in members : \A j \in members : i <= j]
NonEmptyTitles(songs) ==
    LET titled == SelectSeq(songs, LAMBDA song : "title" \in DOMAIN song /\ song["title"] # <<>>)
    IN  [i \in 1..Len(titled) |-> titled[i]["title"]]

\* C9 as stated: for every album key with an album file and a catalog entry,
\* the file's artist is the catalog's artist for the album and the titles of
\* the file's songs are the catalog's songs list for the album.
C9_AlbumFileMatchesCatalog ==
    Written(CatalogPath) =>
        \A p \in WrittenIn("albums") :
            files[p].value.album_title \in DOMAIN Catalog.albums =>
                /\ files[p].value.artist = AlbumEntry(p).artist
                /\ TitlesOf(files[p].value.songs) = AlbumEntry(p).songs

\* C9 amended: for every album key other than the catalog's default
\* "Uncategorized" with an album file and a catalog entry, the catalog's songs
\* list for the album is the list of the non-empty titles of the file's songs,
\* in the file's order; and the two artists are equal when the first record
\* of the album in the input has a non-empty title and an artist field.
C9_AlbumFileVersusCatalog ==
    Written(CatalogPath) =>
        \A p \in WrittenIn("albums") :
            (/\ files[p].value.album_title \in DOMAIN Catalog.albums
             /\ files[p].value.album_title # Uncategorized) =>
                /\ NonEmptyTitles(files[p].value.songs) = AlbumEntry(p).songs
                /\ LET first == FirstInAlbum(files[p].value.album_title)
                   IN  ("title" \in DOMAIN first /\ first["title"] # <<>>
                        /\ "artist" \in DOMAIN first) =>
                            files[p].value.artist = AlbumEntry(p).artist

\* an album of two songs by different artists, the first of the input titled
\* and attributed but not the first by title, in both the file and the catalog
C9_Witness ==
    /\ Written(CatalogPath)
    /\ \E p \in WrittenIn("albums") :
            /\ files[p].value.album_title \in DOMAIN Catalog.albums
            /\ files[p].value.album_title # Uncategorized
            /\ Len(AlbumEntry(p).songs) = 2
            /\ FirstInAlbum(files[p].value.album_title) = files[p].value.songs[2]
            /\ "artist" \in DOMAIN files[p].value.songs[1]
            /\ "artist" \in DOMAIN files[p].value.songs[2]
            /\ files[p].value.songs[1]["artist"] # files[p].value.songs[2]["artist"]
            /\ files[p].value.artist = AlbumEntry(p).artist

\* ---------------------------------------------------------------- C10
CatalogTitles ==
    {Catalog.songs[i] : i \in 1..Len(Catalog.songs)}
        \cup UNION {{Catalog.artists[a][i] : i \in 1..Len(Catalog.artists[a])} :
                        a \in DOMAIN Catalog.artists}
        \cup UNION {{Catalog.albums[a].songs[i] : i \in 1..Len(Catalog.albums[a].songs)} :
                        a \in DOMAIN Catalog.albums}
RECURSIVE SumOver(_, _)
\* the sum of f over the finite set S
SumOver(f, S) ==
    IF S = {} THEN 0
    ELSE LET x == CHOOSE y \in S : TRUE IN f[x] + SumOver(f, S \ {x})

\* C10 as stated: catalog.json is consistent: each title is as many times in
\* catalog.songs as in all the catalog.artists lists together, and as in all
\* the catalog.albums[*].songs lists together.
C10_CatalogConsistent ==
    Written(CatalogPath) =>
        \A t \in CatalogTitles :
            /\ Count(Catalog.songs, t)
                 = SumOver([a \in DOMAIN Catalog.artists |-> Count(Catalog.artists[a], t)],
                           DOMAIN Catalog.artists)
            /\ Count(Catalog.songs, t)
                 = SumOver([a \in DOMAIN Catalog.albums |-> Count(Catalog.albums[a].songs, t)],
                           DOMAIN Catalog.albums)

====
